---------------------------- MODULE Spec2Model ----------------------------
(***************************************************************************)
(* A model of the treasure-hunt client: the hunter profile slice, the NFC  *)
(* and QR payload decoders, the home screen's navigation gate with the     *)
(* treasure slice's hunt start, SuiService.findTreasure running against    *)
(* the treasure registry on the ledger, the wallet key of SuiService, the  *)
(* faucet requests, the treasure slice's lists and hunts, the profile      *)
(* updates, the logout and the startup of the auth hook, and the NFC read  *)
(* operations.                                                             *)
(*                                                                         *)
(* Each part of the program has its own variables and its own              *)
(* specification (SpecHunter, SpecDecode, SpecNav, SpecDiscover,           *)
(* SpecWallet, SpecFaucet, SpecTreasure, SpecAuth, SpecSession,            *)
(* SpecStartup, SpecRead); a specification leaves the other parts'         *)
(* variables at their idle values.                                         *)
(***************************************************************************)
EXTENDS Integers, Sequences, FiniteSets, TLC

VARIABLES
  profile,        \* hunterSlice state.profile (NoProfile = null)
  hunterOp,       \* the hunterSlice reducer that ran last
  day,            \* new Date(), in whole days since the start of the run
  tag,            \* the NFC tag / QR string handed to the decoder
  ndefThrows,     \* whether Ndef.text.decodePayload throws on this device
  clock,          \* Date.now() at the time of the decode
  decoded,        \* what the decoder returned or threw
  decodeOp,       \* the decoder entry point that ran
  hunterRank,     \* home screen: the signed-in hunter's rank ordinal
  nearby,         \* treasureSlice state.nearbyTreasures / home screen list
  route,          \* expo-router: the screen shown
  routeParam,     \* expo-router: the treasureId pushed with /hunt
  alert,          \* the Alert shown by the home screen
  activeHunt,     \* treasureSlice state.activeHunt
  currentTreasure,\* treasureSlice state.currentTreasure
  navLog,         \* history: every navigateToTreasure call and its outcome
  registryFound,  \* ledger: TreasureRegistry, treasure -> finder
  minted,         \* ledger: TreasureNFT objects minted per treasure
  att,            \* findTreasure calls in flight or finished
  foundTreasures, \* AsyncStorage 'found_treasures' per device
  storedItem,     \* AsyncStorage 'sui_private_key'
  svc,            \* the SuiService instance: keypair, isInitialized
  calls,          \* initializeWallet calls: position and return value
  nextKey,        \* the next key the random generator gives
  issued,         \* history: the address first returned since the last reset
  walletState,    \* walletSlice state: network, transactions, pending
  svcNetwork,     \* SuiService.network
  walletInfo,     \* WalletScreen walletInfo?.network ("null" = not loaded)
  suiBalance,     \* useWallet suiBalance, in SUI
  faucetCalls,    \* faucet requests sent over the network
  faucetOp,       \* history: the last faucet request, who made it, its end
  treasureState,  \* treasureSlice state: the lists, the hunt, the stats
  authState,      \* useAuth authState: user, wallet
  authStored,     \* AsyncStorage 'user_data', 'wallet_data'
  authCalls,      \* updateUser / updateWallet / refreshUserData calls
  session,        \* useAuth authState: token, isAuthenticated, isInitialized
  storedToken,    \* AsyncStorage 'auth_token'
  authPc,         \* position of the logout / loadAuthData call
  loadLog,        \* the loadAuthData call: its provider, verification, removal
  reads,          \* NFC read operations: position, progress events, result
  techOwner,      \* NfcManager: the read whose technology request is held
  nfcInitialized  \* NFCService / AlternativeNFCService isInitialized

hunterVars   == <<profile, hunterOp, day>>
decodeVars   == <<tag, ndefThrows, clock, decoded, decodeOp>>
navVars      == <<hunterRank, nearby, route, routeParam, alert, activeHunt,
                  currentTreasure, navLog>>
discoverVars == <<registryFound, minted, att, foundTreasures>>
walletVars   == <<storedItem, svc, calls, nextKey, issued>>
faucetVars   == <<walletState, svcNetwork, walletInfo, suiBalance, faucetCalls,
                  faucetOp>>
treasureVars == <<treasureState>>
authVars     == <<authState, authStored, authCalls, session, storedToken,
                  authPc, loadLog>>
readVars     == <<reads, techOwner, nfcInitialized>>
vars         == <<hunterVars, decodeVars, navVars, discoverVars, walletVars,
                  faucetVars, treasureVars, authVars, readVars>>

(***************************************************************************)
(*                      store/slices/hunterSlice.ts                        *)
(***************************************************************************)

NoProfile == [none |-> TRUE]

\* Model bounds: the reducers are unbounded counters.
MaxLevel == 21
MaxFound == 6
\* Model bound: the days a run lasts.
MaxDay == 2

\* getStreakInfo: isActive = daysDiff <= 1
StreakWindowDays == 1

\* reward.experience of the treasures the app ships with.
ExperienceRewards == {150, 500}

\* The rank names of HunterProfile, in their order.
HunterRanks == <<"Beginner", "Explorer", "Adventurer", "Expert", "Master Hunter">>

RankOrd(r) == CHOOSE i \in 1..Len(HunterRanks) : HunterRanks[i] = r

\* createHunterProfile: the profile a new hunter starts with.
NewProfile ==
  [ rank |-> "Beginner", level |-> 1, experience |-> 0, experienceToNext |-> 100,
    totalTreasuresFound |-> 0, currentStreak |-> 0, longestStreak |-> 0,
    lastActiveAt |-> day ]

\* The rank addExperience assigns from the wrong field (experience left over
\* after the level-up instead of the level).
RankAfterLevelUpWrongField(p) ==
  IF p.experience >= 20 THEN "Master Hunter"
  ELSE IF p.experience >= 15 THEN "Expert"
  ELSE IF p.experience >= 10 THEN "Adventurer"
  ELSE IF p.experience >= 5 THEN "Explorer"
  ELSE "Beginner"

\* addExperience: "Update rank based on level".
RankAfterLevelUp(p) ==
  IF p.level >= 20 THEN "Master Hunter"
  ELSE IF p.level >= 15 THEN "Expert"
  ELSE IF p.level >= 10 THEN "Adventurer"
  ELSE IF p.level >= 5 THEN "Explorer"
  ELSE "Beginner"

\* addExperience: the level-up loop, run to its end.
RECURSIVE LevelUp(_)
LevelUp(p) ==
  IF p.experience >= p.experienceToNext
  THEN LET q == [p EXCEPT !.experience = p.experience - p.experienceToNext,
                          !.level = p.level + 1,
                          !.experienceToNext = (p.level + 1) * 100]
       IN  LevelUp([q EXCEPT !.rank = RankAfterLevelUp(q)])
  ELSE p

\* getNextRankRequirement / getRankInfo: the rank a hunter with n treasures
\* has no further treasures to find for (5 -> Explorer, 20 -> Hunter,
\* 50 -> Master).
RankForTreasures(n) ==
  IF n >= 50 THEN "Master"
  ELSE IF n >= 20 THEN "Hunter"
  ELSE IF n >= 5 THEN "Explorer"
  ELSE "Beginner"

\* Everything but the hunter slice.
NotHunterVars == <<readVars, authVars, treasureVars, faucetVars, decodeVars, navVars, discoverVars, walletVars>>

\* createHunterProfile.fulfilled: state.profile = action.payload.
CreateHunterProfile ==
  /\ profile' = NewProfile
  /\ hunterOp' = "createHunterProfile"
  /\ UNCHANGED day
  /\ UNCHANGED NotHunterVars

\* addExperience(amount).
AddExperience ==
  /\ profile # NoProfile
  /\ profile.level < MaxLevel
  /\ \E amount \in ExperienceRewards :
       profile' = LevelUp([profile EXCEPT !.experience = profile.experience + amount])
  /\ hunterOp' = "addExperience"
  /\ UNCHANGED day
  /\ UNCHANGED NotHunterVars

\* incrementTreasuresFound.
IncrementTreasuresFound ==
  /\ profile # NoProfile
  /\ profile.totalTreasuresFound < MaxFound
  /\ LET streak == profile.currentStreak + 1
     IN  profile' = [profile EXCEPT
            !.totalTreasuresFound = profile.totalTreasuresFound + 1,
            !.currentStreak = streak,
            !.longestStreak = IF streak > profile.longestStreak
                              THEN streak ELSE profile.longestStreak,
            !.lastActiveAt = day]
  /\ hunterOp' = "incrementTreasuresFound"
  /\ UNCHANGED day
  /\ UNCHANGED NotHunterVars

\* resetStreak.
ResetStreak ==
  /\ profile # NoProfile
  /\ profile' = [profile EXCEPT !.currentStreak = 0]
  /\ hunterOp' = "resetStreak"
  /\ UNCHANGED day
  /\ UNCHANGED NotHunterVars

\* resetHunterState: back to initialState.
ResetHunterState ==
  /\ profile' = NoProfile
  /\ hunterOp' = "init"
  /\ UNCHANGED day
  /\ UNCHANGED NotHunterVars

\* A day passes between two dispatches.
DayPasses ==
  /\ day < MaxDay
  /\ day' = day + 1
  /\ UNCHANGED <<profile, hunterOp>>
  /\ UNCHANGED NotHunterVars

NextHunter ==
  \/ CreateHunterProfile
  \/ AddExperience
  \/ IncrementTreasuresFound
  \/ ResetStreak
  \/ ResetHunterState
  \/ DayPasses


(***************************************************************************)
(*          services/NFCService.ts, services/AlternativeNFCService.ts      *)
(*                                                                         *)
(* A payload is a sequence of bytes.  A header byte is one byte: a status  *)
(* byte "s<n>" whose low six bits give the language-code length n, or a    *)
(* language-code letter.  The JSON text is written with one element per    *)
(* brace and one per member (key and value), so JSON.parse, includes() and *)
(* slice() are computed on it as the code computes them on the text.       *)
(***************************************************************************)

StatusBytes   == {"s0", "s1", "s2", "s3"}
LanguageBytes == {"e", "n"}

\* The members a payload may carry.
NameMembers    == {"name"}                            \* "treasure_name": "..."
NfcMembers     == {"nfc_ok", "nfc_noid", "nfc_bad"}   \* "nfc_data": "<json string>"
TypeMembers    == {"type_qr", "type_other"}           \* "type": "..."
VersionMembers == {"ver_1_0", "ver_9_9"}              \* "version": "..."
DataMembers    == {"data_ok", "data_noid"}            \* "data": { ... }
Members == NameMembers \cup NfcMembers \cup TypeMembers \cup VersionMembers \cup DataMembers

\* The treasure id every well-formed payload of the model carries.
PayloadTreasureId == "TREASURE_001"
\* nfcData.t * 1000 of the well-formed nfc_data (t = 7 seconds).
PayloadCreatedAt == 7 * 1000

\* Model bound: the clock values a decode may run at.
MaxClock == 2

JsonBodies ==
  {<<"{", "name", n, "}">> : n \in NfcMembers}
    \cup {<<"{", "name", "}">>, <<"{", "name", "nfc_ok">>}
    \cup {<<"{", t, v, d, "}">> : t \in TypeMembers, v \in VersionMembers, d \in DataMembers}
    \cup {<<"{", t, v, "}">> : t \in TypeMembers, v \in VersionMembers}
    \cup {<<"{", "type_qr", d, "}">> : d \in DataMembers}
    \cup {<< >>, <<"junk">>}

Headers == {<< >>} \cup {<<s, "e", "n">> : s \in StatusBytes}

\* What a scan hands to the decoder: a tag without NDEF message, a record
\* without payload, or a record with payload bytes.
Tags ==
  {[kind |-> "no_ndef", payload |-> << >>], [kind |-> "no_payload", payload |-> << >>]}
    \cup {[kind |-> "ndef", payload |-> h \o b] : h \in Headers, b \in JsonBodies}

\* bytes.slice(k)
Slice(bytes, k) == IF k >= Len(bytes) THEN << >> ELSE SubSeq(bytes, k + 1, Len(bytes))

\* The low six bits of a byte: a status byte's language-code length; for a
\* text byte, the low six bits of its first character ('{' = 0x7B -> 59,
\* 'e' = 0x65 -> 37, 'n' = 0x6E -> 46, 'j' = 0x6A -> 42).
LowSixBits(b) ==
  CASE b = "s0" -> 0
    [] b = "s1" -> 1
    [] b = "s2" -> 2
    [] b = "s3" -> 3
    [] b = "e" -> 37
    [] b = "n" -> 46
    [] b = "junk" -> 42
    [] OTHER -> 59

\* Ndef.text.decodePayload: the text after the status byte and the language
\* code whose length the status byte gives.
NdefTextDecode(bytes) ==
  IF bytes = << >> THEN << >> ELSE Slice(bytes, 1 + LowSixBits(bytes[1]))

\* new TextDecoder('utf-8').decode: every byte becomes a character.
Utf8Decode(bytes) == bytes

Elems(s) == {s[i] : i \in 1..Len(s)}

\* decoded.includes('treasure_name'), .includes('nfc_data'), .includes('{')
IncludesTreasureName(s) == Elems(s) \cap NameMembers # {}
IncludesNfcData(s)      == Elems(s) \cap NfcMembers # {}
IncludesBrace(s)        == Elems(s) \cap ({"{"} \cup NfcMembers \cup DataMembers) # {}

\* JSON.parse(s) succeeds: one object, members only between its braces.
JsonParses(s) ==
  /\ Len(s) >= 2
  /\ s[1] = "{"
  /\ s[Len(s)] = "}"
  /\ \A i \in 2..(Len(s) - 1) : s[i] \in Members

\* The member of kind K of a parsed object ("absent" when there is none; the
\* last one wins, as in JSON.parse).
Member(s, K) ==
  LET at == {i \in 1..Len(s) : s[i] \in K}
  IN  IF at = {} THEN "absent"
      ELSE s[CHOOSE i \in at : \A j \in at : j <= i]

Thrown(msg) == [ok |-> FALSE, error |-> msg]
Returned(claim) == [ok |-> TRUE, claim |-> claim]

\* The "treasure_name"/"nfc_data" format, common to both services.
ParseNfcFormat(s, now) ==
  IF ~JsonParses(s) \/ Member(s, NfcMembers) = "nfc_bad"
  THEN Thrown("Failed to parse treasure format")
  ELSE LET nfc == Member(s, NfcMembers)
       IN  Returned([ treasureId |-> IF nfc = "nfc_ok" THEN PayloadTreasureId ELSE "unknown",
                      name |-> "treasure_name",
                      createdAt |-> IF nfc = "nfc_ok" THEN PayloadCreatedAt ELSE now,
                      source |-> "nfc_data" ])

\* parsed.data of the QR document: the object as written, with whatever
\* fields it has (treasureId undefined when the document has none).
QrData(s) ==
  [ treasureId |-> IF Member(s, DataMembers) = "data_ok" THEN PayloadTreasureId ELSE "undefined",
    name |-> "qr_data",
    createdAt |-> PayloadCreatedAt,
    source |-> "data" ]

\* if (parsed.type === 'treasure_hunt_qr' && parsed.data)
QrAccepted(s) ==
  /\ JsonParses(s)
  /\ Member(s, TypeMembers) = "type_qr"
  /\ Member(s, DataMembers) # "absent"

\* NFCService.parseTreasureFromPayload
ParseTreasureFromPayload(s, now) ==
  IF IncludesTreasureName(s) /\ IncludesNfcData(s) THEN ParseNfcFormat(s, now)
  ELSE IF QrAccepted(s) THEN Returned(QrData(s))
  ELSE Thrown("Unrecognized payload format")

\* AlternativeNFCService.parseTreasureFromPayload
AltParseTreasureFromPayload(s, now) ==
  IF IncludesTreasureName(s) /\ IncludesNfcData(s) THEN ParseNfcFormat(s, now)
  ELSE Thrown("Unrecognized payload format")

\* NFCService.parseQRData
ParseQRData(s) ==
  IF QrAccepted(s) THEN Returned(QrData(s))
  ELSE Thrown("Invalid QR data")

\* processNFCTag, "Try UTF-8 decoding with different skip values": the first
\* skip in 0..5 whose text includes 'treasure_name' or '{'.
RECURSIVE FirstSkip(_, _)
FirstSkip(bytes, skip) ==
  IF skip > 5 THEN [found |-> FALSE, strategy |-> "none", skip |-> 0, text |-> << >>]
  ELSE LET text == Utf8Decode(Slice(bytes, skip))
       IN  IF IncludesTreasureName(text) \/ IncludesBrace(text)
           THEN [found |-> TRUE, strategy |-> "skip", skip |-> skip, text |-> text]
           ELSE FirstSkip(bytes, skip + 1)

\* processNFCTag: the payload string handed to the parser, and the strategy
\* that produced it.  The alternatives run only when the standard decoding
\* throws.
PayloadString(bytes, throws) ==
  IF ~throws
  THEN [found |-> TRUE, strategy |-> "standard", skip |-> 0, text |-> NdefTextDecode(bytes)]
  ELSE FirstSkip(bytes, 0)

\* processNFCTag of NFCService (alt = FALSE) and of AlternativeNFCService
\* (alt = TRUE).
ProcessNFCTag(t, throws, now, alt) ==
  IF t.kind = "no_ndef" THEN Thrown("No NDEF data found on tag")
  ELSE IF t.kind = "no_payload" THEN Thrown("No payload in NDEF record")
  ELSE LET ps == PayloadString(t.payload, throws)
       IN  IF ~ps.found THEN Thrown("Failed to decode NFC payload")
           ELSE IF alt THEN AltParseTreasureFromPayload(ps.text, now)
           ELSE ParseTreasureFromPayload(ps.text, now)

NoTag == [kind |-> "none", payload |-> << >>]
NotDecoded == [ok |-> FALSE, error |-> "not decoded"]

\* Everything but the decoders.
NotDecodeVars == <<readVars, authVars, treasureVars, faucetVars, hunterVars, navVars, discoverVars, walletVars>>

\* NFCService.readTreasureFromNFC, step 5: processNFCTag(tag).
NfcProcessTag ==
  /\ decodeOp = "none"
  /\ decoded' = ProcessNFCTag(tag, ndefThrows, clock, FALSE)
  /\ decodeOp' = "NFCService.processNFCTag"
  /\ UNCHANGED <<tag, ndefThrows, clock>>
  /\ UNCHANGED NotDecodeVars

\* AlternativeNFCService.attemptNFCRead: processNFCTag(tag).
AltNfcProcessTag ==
  /\ decodeOp = "none"
  /\ decoded' = ProcessNFCTag(tag, ndefThrows, clock, TRUE)
  /\ decodeOp' = "AlternativeNFCService.processNFCTag"
  /\ UNCHANGED <<tag, ndefThrows, clock>>
  /\ UNCHANGED NotDecodeVars

\* NFCService.parseQRData(qrString): the scanned string is the payload as is.
QrParse ==
  /\ decodeOp = "none"
  /\ tag.kind = "ndef"
  /\ decoded' = ParseQRData(tag.payload)
  /\ decodeOp' = "NFCService.parseQRData"
  /\ UNCHANGED <<tag, ndefThrows, clock>>
  /\ UNCHANGED NotDecodeVars

NextDecode ==
  \/ NfcProcessTag
  \/ AltNfcProcessTag
  \/ QrParse

(***************************************************************************)
(*     app/(tabs)/index.tsx (home screen), store/slices/treasureSlice.ts   *)
(*                                                                         *)
(* Distances are in decimetres, so that a distance between two whole       *)
(* metres can be told from its rounding.                                   *)
(***************************************************************************)

TreasureIds == {"T1", "T2"}

\* navigateToTreasure: if (treasure.distance > 5000)
MaxDistanceMeters == 5000
\* README, "Travel to treasure locations (within 100m)"
ReadmeDistanceMeters == 100

Dm(meters) == meters * 10

\* The distances the server may report for a treasure: on the spot, about
\* 11 m, at and just past 100 m, just short of 5 km, at 5 km, 5000.4 m,
\* 5 km + 1 m.
Distances ==
  {0, 110, Dm(ReadmeDistanceMeters), Dm(ReadmeDistanceMeters + 1),
   Dm(MaxDistanceMeters - 1), Dm(MaxDistanceMeters), Dm(MaxDistanceMeters) + 4,
   Dm(MaxDistanceMeters + 1)}

\* requiredRank: 1=Beginner, 2=Explorer, 3=Hunter, 4=Master
RequiredRanks == {1, 3}
SignedInRanks == {1, 2, 4}

NoHunt == [treasureId |-> "none", status |-> "none"]

\* navigateToTreasure with >= for >.
TooFarExclusive(distance) == distance >= Dm(MaxDistanceMeters)

\* navigateToTreasure: treasure.distance > 5000
TooFar(distance) == distance > Dm(MaxDistanceMeters)

\* The treasure list and the press history of a home screen not in use.
NothingNearby == [t \in TreasureIds |-> [distance |-> 0, requiredRank |-> 1]]
NothingPressed == [t \in TreasureIds |-> "none"]

\* Everything but the home screen and the treasure slice.
NotNavVars == <<readVars, authVars, treasureVars, faucetVars, hunterVars, decodeVars, discoverVars, walletVars>>

\* navigateToTreasure(treasure), on a press of a treasure card.
NavigateToTreasure ==
  /\ route = "/"
  /\ alert = "none"
  /\ \E t \in TreasureIds :
       IF TooFar(nearby[t].distance)
       THEN /\ alert' = "Too Far Away"
            /\ navLog' = [navLog EXCEPT ![t] = "TooFar"]
            /\ UNCHANGED <<route, routeParam>>
       ELSE /\ route' = "/hunt"
            /\ routeParam' = t
            /\ navLog' = [navLog EXCEPT ![t] = "accepted"]
            /\ UNCHANGED alert
  /\ UNCHANGED <<hunterRank, nearby, activeHunt, currentTreasure>>
  /\ UNCHANGED NotNavVars

\* The alert's OK button.
DismissAlert ==
  /\ alert # "none"
  /\ alert' = "none"
  /\ UNCHANGED <<hunterRank, nearby, route, routeParam, activeHunt, currentTreasure, navLog>>
  /\ UNCHANGED NotNavVars

\* startTreasureHunt.fulfilled: the thunk builds an active hunt from its
\* parameters, and the reducer installs it.
StartTreasureHunt ==
  /\ \E t \in TreasureIds :
       /\ activeHunt' = [treasureId |-> t, status |-> "active"]
       /\ currentTreasure' = t
  /\ UNCHANGED <<hunterRank, nearby, route, routeParam, alert, navLog>>
  /\ UNCHANGED NotNavVars

NextNav ==
  \/ NavigateToTreasure
  \/ DismissAlert
  \/ StartTreasureHunt

(***************************************************************************)
(*        services/SuiService.ts: findTreasure against the ledger          *)
(*                                                                         *)
(* The treasure_nft Move package (find_treasure and its TreasureRegistry)  *)
(* is not among the client's files: FindTreasureContract and LedgerExecute *)
(* model it from the design's description of the registry, a store that    *)
(* accepts one settlement per treasure and executes transactions one at a  *)
(* time.  Everything else below is the client's code.                      *)
(***************************************************************************)

\* Model bound: the findTreasure calls of one run.
MaxAttempts == 3
Attempts == 1..MaxAttempts

Hunters == {"h1", "h2"}

\* The device (and wallet) an attempt runs on: the attempts alternate between
\* the two hunters, so attempt a + 2 is on the device of attempt a.
HunterOf(a) == IF a % 2 = 1 THEN "h1" ELSE "h2"

\* What the contract finds wrong with the hunter, the treasure id or the
\* location proof of an attempt ("ok": nothing).
Eligibilities == {"ok", "E_INVALID_LOCATION", "E_INSUFFICIENT_RANK", "E_INVALID_TREASURE_ID"}

NoTx == [status |-> "none", error |-> "none", nftCreated |-> FALSE]

IdleAttempt ==
  [ pc |-> "idle", treasure |-> "none", elig |-> "ok", retryOf |-> 0,
    tx |-> NoTx, outcome |-> "none", cause |-> "none" ]

\* find_treasure: aborts on an ineligible call and on a treasure already in
\* the registry, and otherwise succeeds.
FindTreasureContract(t, elig, registry) ==
  IF elig # "ok" THEN elig
  ELSE IF registry[t] # "none" THEN "E_TREASURE_ALREADY_FOUND"
  ELSE "success"

\* The messages findTreasure's catch block rethrows.
AlreadyFoundMessage == "This treasure has already been found by someone else!"
InvalidLocationMessage == "Location verification failed. Make sure you are at the correct location."
RankTooLowMessage == "Your hunter rank is too low for this treasure. Keep hunting to level up!"
InvalidTreasureMessage == "Invalid treasure ID. This treasure may not exist."
InsufficientBalanceMessage == "Insufficient SUI balance for transaction. Need at least 0.05 SUI for gas."
RegistryNotFoundMessage == "TreasureRegistry not found. Please provide the registry object ID manually."
ExtractFailedMessage == "Failed to extract NFT object ID from transaction result"
NetworkErrorMessage == "Network request failed"

\* findTreasure, catch: "Provide more specific error messages", for the error
\* `Transaction failed: ${error}`.
SpecificError(error) ==
  CASE error = "E_TREASURE_ALREADY_FOUND" -> AlreadyFoundMessage
    [] error = "E_INVALID_LOCATION" -> InvalidLocationMessage
    [] error = "E_INSUFFICIENT_RANK" -> RankTooLowMessage
    [] error = "E_INVALID_TREASURE_ID" -> InvalidTreasureMessage
    [] OTHER -> error

\* findTreasure without its check of the transaction's status.
TxFailedUnchecked(tx) == FALSE

\* findTreasure: result.effects?.status?.status !== 'success'
TxFailed(tx) == tx.status # "success"

\* Attempt a has begun (attempt 0 stands for "no attempt before the first").
Started(a) == IF a = 0 THEN TRUE ELSE att[a].pc # "idle"

EmptyRegistry == [t \in TreasureIds |-> "none"]
NothingMinted == [t \in TreasureIds |-> 0]
NoAttempts == [a \in Attempts |-> IdleAttempt]
NothingStored == [h \in Hunters |-> << >>]

\* Everything but findTreasure and the ledger.
NotDiscoverVars == <<readVars, authVars, treasureVars, faucetVars, hunterVars, decodeVars, navVars, walletVars>>

\* A call of findTreasure(treasureId, locationProof).  The attempts start in
\* the order of their numbers.
BeginFindTreasure(a) ==
  /\ att[a].pc = "idle"
  /\ Started(a - 1)
  /\ \E t \in TreasureIds, e \in Eligibilities :
       att' = [att EXCEPT ![a] = [IdleAttempt EXCEPT !.pc = "prepare", !.treasure = t, !.elig = e]]
  /\ UNCHANGED <<registryFound, minted, foundTreasures>>
  /\ UNCHANGED NotDiscoverVars

\* The same call made again, with the same arguments, after an attempt of
\* this device ended with a network error.
RetryFindTreasure(a) ==
  /\ att[a].pc = "idle"
  /\ Started(a - 1)
  /\ \E f \in Attempts :
       /\ HunterOf(f) = HunterOf(a)
       /\ att[f].pc = "done"
       /\ att[f].outcome = NetworkErrorMessage
       /\ att' = [att EXCEPT ![a] = [IdleAttempt EXCEPT !.pc = "prepare",
                                        !.treasure = att[f].treasure,
                                        !.elig = att[f].elig,
                                        !.retryOf = f]]
  /\ UNCHANGED <<registryFound, minted, foundTreasures>>
  /\ UNCHANGED NotDiscoverVars

\* findTreasure: balance < 0.05, in hundredths of a SUI.
GasNeeded == 5

\* What client.getBalance may answer: the wallet's balance in hundredths of
\* a SUI, or (ok = FALSE) a failed request for a wallet holding that much.
BalanceReads ==
  {[ok |-> TRUE, amount |-> 0], [ok |-> TRUE, amount |-> GasNeeded - 1],
   [ok |-> TRUE, amount |-> GasNeeded], [ok |-> TRUE, amount |-> 4 * GasNeeded],
   [ok |-> FALSE, amount |-> 4 * GasNeeded]}

\* getBalance / getBalanceInSui: a failed request is logged and read as 0.
GetBalance(read) == IF read.ok THEN read.amount ELSE 0

\* findTreasure up to the transaction: the gas balance check and the lookup
\* of the registry and profile object ids.  The cause of a failure is kept
\* beside the message thrown for it.
Prepare(a) ==
  /\ att[a].pc = "prepare"
  /\ \E read \in BalanceReads, registryKnown \in BOOLEAN :
       att' = IF GetBalance(read) < GasNeeded
              THEN [att EXCEPT ![a].pc = "done",
                               ![a].outcome = InsufficientBalanceMessage,
                               ![a].cause = IF read.ok THEN "InsufficientFunds"
                                            ELSE "StoreUnavailable"]
              ELSE IF ~registryKnown
              THEN [att EXCEPT ![a].pc = "done",
                               ![a].outcome = RegistryNotFoundMessage,
                               ![a].cause = "RegistryNotFound"]
              ELSE [att EXCEPT ![a].pc = "submit"]
  /\ UNCHANGED <<registryFound, minted, foundTreasures>>
  /\ UNCHANGED NotDiscoverVars

\* The ledger executes the transaction of attempt a: the registry records
\* the finder and one TreasureNFT is minted (and listed among the object
\* changes of the result), or the call aborts.
LedgerExecute(a) ==
  LET t == att[a].treasure
      r == FindTreasureContract(t, att[a].elig, registryFound)
  IN  /\ att' = [att EXCEPT ![a].pc = "inflight",
                              ![a].tx = IF r = "success"
                                        THEN [status |-> "success", error |-> "none", nftCreated |-> TRUE]
                                        ELSE [status |-> "failure", error |-> r, nftCreated |-> FALSE]]
      /\ registryFound' = IF r = "success" THEN [registryFound EXCEPT ![t] = HunterOf(a)]
                          ELSE registryFound
      /\ minted' = IF r = "success" THEN [minted EXCEPT ![t] = minted[t] + 1] ELSE minted

\* client.signAndExecuteTransaction: the request reaches the ledger, which
\* executes it, or is lost on the way.
SignAndExecute(a) ==
  /\ att[a].pc = "submit"
  /\ \/ LedgerExecute(a)
     \/ /\ att' = [att EXCEPT ![a].pc = "inflight"]
        /\ UNCHANGED <<registryFound, minted>>
  /\ UNCHANGED foundTreasures
  /\ UNCHANGED NotDiscoverVars

\* signAndExecuteTransaction rejects: the response (or the request) was lost.
ResponseLost(a) ==
  /\ att[a].pc = "inflight"
  /\ att' = [att EXCEPT ![a].pc = "done", ![a].outcome = NetworkErrorMessage,
                         ![a].cause = "Timeout"]
  /\ UNCHANGED <<registryFound, minted, foundTreasures>>
  /\ UNCHANGED NotDiscoverVars

\* findTreasure from the transaction's result to storeTreasureLocally.  The
\* result's objectChanges are optional: they list the created TreasureNFT
\* or they do not.
ProcessResult(a) ==
  /\ att[a].pc = "inflight"
  /\ att[a].tx.status # "none"
  /\ \E listed \in BOOLEAN :
       att' = IF TxFailed(att[a].tx)
              THEN [att EXCEPT ![a].pc = "done",
                               ![a].outcome = SpecificError(att[a].tx.error),
                               ![a].cause = att[a].tx.error]
              ELSE IF ~(att[a].tx.nftCreated /\ listed)
              THEN [att EXCEPT ![a].pc = "done",
                               ![a].outcome = ExtractFailedMessage,
                               ![a].cause = "NoNftObject"]
              ELSE [att EXCEPT ![a].pc = "store"]
  /\ UNCHANGED <<registryFound, minted, foundTreasures>>
  /\ UNCHANGED NotDiscoverVars

\* storeTreasureLocally, whose failure is logged and swallowed, and the
\* return of the TreasureDiscoveryResult.
StoreAndReturn(a) ==
  /\ att[a].pc = "store"
  /\ \/ foundTreasures' = [foundTreasures EXCEPT
                             ![HunterOf(a)] = Append(@, att[a].treasure)]
     \/ UNCHANGED foundTreasures
  /\ att' = [att EXCEPT ![a].pc = "done", ![a].outcome = "Settled"]
  /\ UNCHANGED <<registryFound, minted>>
  /\ UNCHANGED NotDiscoverVars

NextDiscover ==
  \E a \in Attempts :
    \/ BeginFindTreasure(a)
    \/ RetryFindTreasure(a)
    \/ Prepare(a)
    \/ SignAndExecute(a)
    \/ ResponseLost(a)
    \/ ProcessResult(a)
    \/ StoreAndReturn(a)

(***************************************************************************)
(*     services/SuiService.ts: the wallet key, in memory and in storage    *)
(*                                                                         *)
(* Keys are numbered 1, 2, ... in the order the generator gives them; 0    *)
(* stands for "no key" (null).  An address is named by its key.            *)
(***************************************************************************)

\* Model bound: the keys the generator gives in one run.
MaxKeys == 3

\* The callers that may be inside initializeWallet at the same time.
Calls == {1, 2}

NoItem == [form |-> "none", key |-> 0]
\* A stored value that fromB64 / Ed25519Keypair.fromSecretKey rejects.
CorruptItem == [form |-> "corrupt", key |-> 0]

\* toB64(privateKeyBytes): the key in base64, readable by anyone who reads
\* the storage.
ToB64(k) == [form |-> "base64", key |-> k]
\* Ed25519Keypair.fromSecretKey(fromB64(item))
FromB64(item) == item.key

\* A new SuiService: keypair = null, isInitialized = false.
FreshService == [keypair |-> 0, isInitialized |-> FALSE]
\* result: 0 before a call returns, the address (key) it returned, -1 when
\* it threw.
NoCalls == [c \in Calls |-> [pc |-> "idle", result |-> 0]]

\* initializeWallet, from isInitialized = true to its return: the address
\* of the key in memory.
Finish(c, key) ==
  /\ svc' = [keypair |-> key, isInitialized |-> TRUE]
  /\ calls' = [calls EXCEPT ![c] = [pc |-> "idle", result |-> key]]
  /\ issued' = IF issued = 0 THEN key ELSE issued

\* initializeWallet, "if (!this.keypair)": a new keypair, and the call waits
\* for setItem; with a keypair in memory, the call finishes.
CreateIfMissing(c) ==
  IF svc.keypair = 0
  THEN /\ nextKey <= MaxKeys
       /\ svc' = [svc EXCEPT !.keypair = nextKey]
       /\ calls' = [calls EXCEPT ![c].pc = "setItem"]
       /\ nextKey' = nextKey + 1
       /\ UNCHANGED issued
  ELSE /\ Finish(c, svc.keypair)
       /\ UNCHANGED nextKey

\* Everything but the wallet key.
NotWalletVars == <<readVars, hunterVars, decodeVars, navVars, discoverVars, faucetVars,
                   treasureVars, authVars>>

\* initializeWallet(): returns at once when initialized, and otherwise asks
\* the storage for 'sui_private_key'.
InitializeWallet(c) ==
  /\ calls[c].pc = "idle"
  /\ IF svc.isInitialized /\ svc.keypair # 0
     THEN /\ calls' = [calls EXCEPT ![c].result = svc.keypair]
          /\ issued' = IF issued = 0 THEN svc.keypair ELSE issued
     ELSE /\ calls' = [calls EXCEPT ![c] = [pc |-> "getItem", result |-> 0]]
          /\ UNCHANGED issued
  /\ UNCHANGED <<storedItem, svc, nextKey>>
  /\ UNCHANGED NotWalletVars

\* AsyncStorage.getItem answers: a stored key is loaded, an unreadable value
\* is to be removed, and with nothing stored a keypair is created.
GetItemDone(c) ==
  /\ calls[c].pc = "getItem"
  /\ CASE storedItem.form = "base64" ->
            /\ Finish(c, FromB64(storedItem))
            /\ UNCHANGED nextKey
       [] storedItem.form = "corrupt" ->
            /\ calls' = [calls EXCEPT ![c].pc = "removeItem"]
            /\ UNCHANGED <<svc, nextKey, issued>>
       [] OTHER -> CreateIfMissing(c)
  /\ UNCHANGED storedItem
  /\ UNCHANGED NotWalletVars

\* AsyncStorage.removeItem of the unreadable value has been done.
RemoveItemDone(c) ==
  /\ calls[c].pc = "removeItem"
  /\ storedItem' = NoItem
  /\ CreateIfMissing(c)
  /\ UNCHANGED NotWalletVars

\* AsyncStorage.setItem of the key in memory succeeds.
SetItemDone(c) ==
  /\ calls[c].pc \in {"setItem", "setItemAlt"}
  /\ storedItem' = ToB64(svc.keypair)
  /\ Finish(c, svc.keypair)
  /\ UNCHANGED nextKey
  /\ UNCHANGED NotWalletVars

\* setItem rejects: the catch generates a keypair the alternative way and
\* stores that one.
SetItemFails(c) ==
  /\ calls[c].pc = "setItem"
  /\ nextKey <= MaxKeys
  /\ svc' = [svc EXCEPT !.keypair = nextKey]
  /\ calls' = [calls EXCEPT ![c].pc = "setItemAlt"]
  /\ nextKey' = nextKey + 1
  /\ UNCHANGED <<storedItem, issued>>
  /\ UNCHANGED NotWalletVars

\* setItem rejects again: initializeWallet throws, with the keypair left in
\* memory.
SetItemAltFails(c) ==
  /\ calls[c].pc = "setItemAlt"
  /\ calls' = [calls EXCEPT ![c] = [pc |-> "idle", result |-> -1]]
  /\ UNCHANGED <<storedItem, svc, nextKey, issued>>
  /\ UNCHANGED NotWalletVars

\* resetWallet(), with no initializeWallet under way: multiRemove, then the
\* fields in memory are cleared.  The addresses returned so far are
\* forgotten.
ResetWallet ==
  /\ \A c \in Calls : calls[c].pc = "idle"
  /\ svc # FreshService \/ storedItem # NoItem
  /\ storedItem' = NoItem
  /\ svc' = FreshService
  /\ calls' = NoCalls
  /\ issued' = 0
  /\ UNCHANGED nextKey
  /\ UNCHANGED NotWalletVars

\* The app is closed and opened again: the instance is new, the storage is
\* as it was.
Restart ==
  /\ svc # FreshService \/ calls # NoCalls
  /\ svc' = FreshService
  /\ calls' = [c \in Calls |-> [pc |-> "idle", result |-> calls[c].result]]
  /\ UNCHANGED <<storedItem, nextKey, issued>>
  /\ UNCHANGED NotWalletVars

NextWallet ==
  \/ \E c \in Calls :
       \/ InitializeWallet(c)
       \/ GetItemDone(c)
       \/ RemoveItemDone(c)
       \/ SetItemDone(c)
       \/ SetItemFails(c)
       \/ SetItemAltFails(c)
  \/ ResetWallet
  \/ Restart

(***************************************************************************)
(*   store/slices/walletSlice.ts, services/SuiService.ts, hooks/useWallet  *)
(*   and the wallet screen: the three ways to ask the faucet for SUI       *)
(***************************************************************************)

Networks == {"testnet", "devnet", "mainnet", "localnet"}

\* Model bound: the faucet requests of one run.
MaxFaucetRequests == 3

\* walletSlice initialState.
InitialWalletState ==
  [network |-> "testnet", transactions |-> <<>>, pendingTransactions |-> <<>>]

NoFaucetOp == [n |-> 0, by |-> "none", end |-> "none"]

\* The answers of a faucet: SUI granted, request refused, no answer.
FaucetAnswers == {"ok", "refused", "error"}

FaucetOpDone(by, end) == [n |-> faucetOp.n + 1, by |-> by, end |-> end]

\* The mock transaction the requestFaucet thunk returns; the digest is the
\* time of the request, here its number.
MockTransaction == [digest |-> faucetOp.n + 1, type |-> "received",
                    status |-> "pending", description |-> "Faucet Request"]

\* Everything but the faucet.
NotFaucetVars == <<readVars, hunterVars, decodeVars, navVars, discoverVars, walletVars,
                   treasureVars, authVars>>

\* walletSlice reducer switchNetwork.
SwitchNetwork(n) ==
  /\ walletState.network # n
  /\ walletState' = [walletState EXCEPT !.network = n]
  /\ UNCHANGED <<svcNetwork, walletInfo, suiBalance, faucetCalls, faucetOp>>
  /\ UNCHANGED NotFaucetVars

\* walletSlice thunk requestFaucet and its fulfilled case: the thunk builds
\* a transaction and the reducer puts it first in the list and among the
\* pending ones.  The thunk's try block has nothing that throws.
SliceRequestFaucet ==
  /\ faucetOp.n < MaxFaucetRequests
  /\ walletState' =
       [walletState EXCEPT
          !.transactions = <<MockTransaction>> \o @,
          !.pendingTransactions = Append(@, MockTransaction.digest)]
  /\ faucetOp' = FaucetOpDone("walletSlice", "fulfilled")
  /\ UNCHANGED <<svcNetwork, walletInfo, suiBalance, faucetCalls>>
  /\ UNCHANGED NotFaucetVars

\* SuiService.requestSuiFromFaucet(): throws on mainnet before anything is
\* sent; otherwise posts to the testnet or devnet faucet and returns whether
\* the faucet said ok.
RequestSuiFromFaucet ==
  /\ faucetOp.n < MaxFaucetRequests
  /\ IF svcNetwork = "mainnet"
     THEN /\ faucetOp' = FaucetOpDone("SuiService", "thrown")
          /\ UNCHANGED faucetCalls
     ELSE \E answer \in FaucetAnswers :
            /\ faucetCalls' = faucetCalls + 1
            /\ faucetOp' = FaucetOpDone("SuiService",
                             IF answer = "ok" THEN "true" ELSE "false")
  /\ UNCHANGED <<walletState, svcNetwork, walletInfo, suiBalance>>
  /\ UNCHANGED NotFaucetVars

\* useWallet requestFaucet(): asks the backend and takes the new balance
\* from a successful answer.
UseWalletRequestFaucet(answer) ==
  /\ faucetCalls' = faucetCalls + 1
  /\ IF answer = "ok"
     THEN /\ suiBalance' = suiBalance + 1
          /\ faucetOp' = FaucetOpDone("WalletScreen", "success")
     ELSE /\ faucetOp' = FaucetOpDone("WalletScreen", "error")
          /\ UNCHANGED suiBalance

\* WalletScreen handleFaucetRequest: an alert and nothing else on mainnet,
\* otherwise useWallet's requestFaucet.
HandleFaucetRequest ==
  /\ faucetOp.n < MaxFaucetRequests
  /\ IF walletInfo = "mainnet"
     THEN /\ faucetOp' = FaucetOpDone("WalletScreen", "unavailable")
          /\ UNCHANGED <<suiBalance, faucetCalls>>
     ELSE \E answer \in FaucetAnswers : UseWalletRequestFaucet(answer)
  /\ UNCHANGED <<walletState, svcNetwork, walletInfo>>
  /\ UNCHANGED NotFaucetVars

NextFaucet ==
  \/ \E n \in Networks : SwitchNetwork(n)
  \/ SliceRequestFaucet
  \/ RequestSuiFromFaucet
  \/ HandleFaucetRequest

(***************************************************************************)
(*   store/slices/treasureSlice.ts: the nearby and found lists, with the   *)
(*   hunter slice of the same store                                        *)
(*                                                                         *)
(* A treasure in a list is named by its id.                                *)
(***************************************************************************)

\* Model bound: the entries of foundTreasures and of huntHistory.
MaxRecorded == 3

\* treasureSlice initialState.
\* Model bound: the hunts started in one run.
MaxHunts == 3

\* activeHunt: null
NullHunt == [id |-> 0, treasureId |-> "none", status |-> "none"]

\* huntsStarted stands for the clock behind the hunt's id, hunt_${Date.now()}.
InitialTreasureState ==
  [nearbyTreasures |-> <<>>, foundTreasures |-> <<>>,
   currentTreasure |-> "none", activeHunt |-> NullHunt,
   totalFound |-> 0, huntHistory |-> <<>>, huntsStarted |-> 0]

\* loadNearbyTreasures: the treasures the thunk returns (treasure_1,
\* treasure_2), in its order.
MockTreasures == <<"T1", "T2">>

\* array.filter(t => t.id !== id)
RECURSIVE Without(_, _)
Without(list, id) ==
  IF list = <<>> THEN <<>>
  ELSE IF Head(list) = id THEN Without(Tail(list), id)
       ELSE <<Head(list)>> \o Without(Tail(list), id)

\* array.find(t => t.id === id) finds something
Has(list, id) == \E i \in 1..Len(list) : list[i] = id

Count(list, id) == Cardinality({i \in 1..Len(list) : list[i] = id})

\* Everything but the treasure slice.
NotTreasureVars == <<readVars, hunterVars, decodeVars, navVars, discoverVars, walletVars,
                     faucetVars, authVars>>

\* loadNearbyTreasures.fulfilled
LoadNearbyTreasures ==
  /\ treasureState' = [treasureState EXCEPT !.nearbyTreasures = MockTreasures]
  /\ UNCHANGED NotTreasureVars

\* startTreasureHunt.fulfilled: the hunt is installed, and the current
\* treasure is set when the hunt's treasure is in the nearby list.
StartHuntFulfilled(t) ==
  /\ treasureState.huntsStarted < MaxHunts
  /\ treasureState' =
       [treasureState EXCEPT
          !.huntsStarted = @ + 1,
          !.activeHunt = [id |-> treasureState.huntsStarted + 1,
                          treasureId |-> t, status |-> "active"],
          !.currentTreasure =
             IF Has(treasureState.nearbyTreasures, t) THEN t ELSE @]
  /\ UNCHANGED NotTreasureVars

\* completeTreasureHunt.fulfilled
CompleteTreasureHunt(success) ==
  /\ treasureState.activeHunt # NullHunt
  /\ Len(treasureState.huntHistory) < MaxRecorded
  /\ Len(treasureState.foundTreasures) < MaxRecorded
  /\ LET cur == treasureState.currentTreasure
         marked == success /\ cur # "none"
     IN  treasureState' =
           [treasureState EXCEPT
              !.huntHistory =
                 Append(@, [treasureState.activeHunt EXCEPT
                              !.status = IF success THEN "completed"
                                         ELSE "failed"]),
              !.foundTreasures = IF marked THEN Append(@, cur) ELSE @,
              !.nearbyTreasures = IF marked THEN Without(@, cur) ELSE @,
              !.totalFound = IF marked THEN @ + 1 ELSE @,
              !.activeHunt = NullHunt,
              !.currentTreasure = "none"]
  /\ UNCHANGED NotTreasureVars

\* abandonHunt
AbandonHunt ==
  /\ treasureState.activeHunt # NullHunt
  /\ Len(treasureState.huntHistory) < MaxRecorded
  /\ treasureState' =
       [treasureState EXCEPT
          !.huntHistory =
             Append(@, [treasureState.activeHunt EXCEPT !.status = "abandoned"]),
          !.activeHunt = NullHunt,
          !.currentTreasure = "none"]
  /\ UNCHANGED NotTreasureVars

\* markTreasureFound({treasureId, hunterId})
MarkTreasureFound(t) ==
  /\ Len(treasureState.foundTreasures) < MaxRecorded
  /\ Has(treasureState.nearbyTreasures, t)
  /\ treasureState' =
       [treasureState EXCEPT
          !.foundTreasures = Append(@, t),
          !.nearbyTreasures = Without(@, t),
          !.totalFound = @ + 1]
  /\ UNCHANGED NotTreasureVars

\* setCurrentTreasure(treasure | null)
SetCurrentTreasure(t) ==
  /\ treasureState.currentTreasure # t
  /\ treasureState' = [treasureState EXCEPT !.currentTreasure = t]
  /\ UNCHANGED NotTreasureVars

NextTreasure ==
  \/ LoadNearbyTreasures
  \/ \E t \in TreasureIds : StartHuntFulfilled(t)
  \/ \E success \in BOOLEAN : CompleteTreasureHunt(success)
  \/ AbandonHunt
  \/ \E t \in TreasureIds : MarkTreasureFound(t)
  \/ \E t \in TreasureIds \cup {"none"} : SetCurrentTreasure(t)
  \/ CreateHunterProfile
  \/ IncrementTreasuresFound

(***************************************************************************)
(*   hooks/useAuth.ts, contexts/AuthContext.tsx: updateUser, updateWallet  *)
(*   and refreshUserData on the signed-in user's profile                   *)
(*                                                                         *)
(* A field is 0 while it has the value of the login and 1 once it has the  *)
(* value an update gives it.  Each caller changes fields of its own.  A    *)
(* call sees the user and wallet of the render it is made in, taken here   *)
(* to be the latest one.                                                   *)
(***************************************************************************)

\* The calls of one run: two updateUser calls with different fields, one
\* updateWallet, one refreshUserData.
AuthCallers == {"updateUser(username)", "updateUser(avatarUrl)",
                "updateWallet(verified)", "refreshUserData"}
UserUpdaters == {"updateUser(username)", "updateUser(avatarUrl)"}

\* The user and the wallet after login, in memory and in storage alike.
SignedIn ==
  [user |-> [username |-> 0, avatarUrl |-> 0, rank |-> 0],
   wallet |-> [verified |-> 0, balance |-> 0, suiBalance |-> 0]]

NoAuthCalls == [c \in AuthCallers |-> [pc |-> "idle", next |-> SignedIn]]

\* user: null, wallet: null
NoUser == [none |-> TRUE]
NoWallet == [none |-> TRUE]

\* The rest of authState after login, and after clearAuthData.
SignedInSession ==
  [token |-> "token", isAuthenticated |-> TRUE, isInitialized |-> TRUE,
   isLoggingOut |-> FALSE]
SignedOutSession ==
  [token |-> "null", isAuthenticated |-> FALSE, isInitialized |-> TRUE,
   isLoggingOut |-> FALSE]

\* useState's initial authState, before loadAuthData.
InitialSession ==
  [token |-> "null", isAuthenticated |-> FALSE, isInitialized |-> FALSE,
   isLoggingOut |-> FALSE]

\* A stored value JSON.parse throws on.
CorruptData == [corrupt |-> TRUE]

\* The two providers of the session: the useAuth hook and AuthContext.
AuthImpls == {"useAuth", "AuthContext"}

NoLoad == [impl |-> "useAuth", verify |-> "none", removed |-> "none"]

\* What verifyToken may do: answer success, answer failure, throw.
VerifyAnswers == {"success", "failure", "throws"}

\* loadAuthData with a check of the token alone.
AllStoredTokenOnly(token, userData, walletData) == token # "null"

\* loadAuthData: if (token && userData && walletData)
AllStored(token, userData, walletData) ==
  token # "null" /\ userData # NoUser /\ walletData # NoWallet

\* { ...authState.user, ...updatedUserData }
MergeUser(user, c) ==
  IF c = "updateUser(username)" THEN [user EXCEPT !.username = 1]
  ELSE [user EXCEPT !.avatarUrl = 1]

\* { ...authState.wallet, ...updatedWalletData }
MergeWallet(wallet) == [wallet EXCEPT !.verified = 1]

\* { ...authState.user!, rank: profileResponse.data.profile.rank }
RefreshedUser(user) == [user EXCEPT !.rank = 1]

\* { ...authState.wallet!, balance: ..., suiBalance: ... }
RefreshedWallet(wallet) == [wallet EXCEPT !.balance = 1, !.suiBalance = 1]

\* Everything but the signed-in profile.
NotAuthVars == <<readVars, hunterVars, decodeVars, navVars, discoverVars, walletVars,
                 faucetVars, treasureVars>>

\* updateUser(updatedUserData), up to its await: newUser is built from the
\* user the call sees and handed to AsyncStorage.setItem.
UpdateUser(c) ==
  /\ authCalls[c].pc = "idle"
  /\ authCalls' =
       IF authState.user = NoUser
       THEN [authCalls EXCEPT ![c].pc = "returned"]
       ELSE [authCalls EXCEPT ![c] =
               [pc |-> "setItem",
                next |-> [authState EXCEPT
                            !.user = MergeUser(authState.user, c)]]]
  /\ UNCHANGED <<authState, authStored, session, storedToken, authPc, loadLog>>
  /\ UNCHANGED NotAuthVars

\* updateUser after its await: 'user_data' holds newUser, and setAuthState
\* puts newUser in memory.
UpdateUserStored(c) ==
  /\ authCalls[c].pc = "setItem"
  /\ authStored' = [authStored EXCEPT !.user = authCalls[c].next.user]
  /\ authState' = [authState EXCEPT !.user = authCalls[c].next.user]
  /\ authCalls' = [authCalls EXCEPT ![c].pc = "done"]
  /\ UNCHANGED <<session, storedToken, authPc, loadLog>>
  /\ UNCHANGED NotAuthVars

\* updateWallet(updatedWalletData), up to its await.
UpdateWallet ==
  /\ authCalls["updateWallet(verified)"].pc = "idle"
  /\ authCalls' =
       IF authState.wallet = NoWallet
       THEN [authCalls EXCEPT !["updateWallet(verified)"].pc = "returned"]
       ELSE [authCalls EXCEPT !["updateWallet(verified)"] =
               [pc |-> "setItem",
                next |-> [authState EXCEPT
                            !.wallet = MergeWallet(authState.wallet)]]]
  /\ UNCHANGED <<authState, authStored, session, storedToken, authPc, loadLog>>
  /\ UNCHANGED NotAuthVars

\* updateWallet after its await.
UpdateWalletStored ==
  LET c == "updateWallet(verified)"
  IN  /\ authCalls[c].pc = "setItem"
      /\ authStored' = [authStored EXCEPT !.wallet = authCalls[c].next.wallet]
      /\ authState' = [authState EXCEPT !.wallet = authCalls[c].next.wallet]
      /\ authCalls' = [authCalls EXCEPT ![c].pc = "done"]
      /\ UNCHANGED <<session, storedToken, authPc, loadLog>>
      /\ UNCHANGED NotAuthVars

\* refreshUserData(), up to its await of the two backend requests; the
\* call keeps the user and the wallet it was made with.  Not authenticated,
\* it throws.
RefreshUserData ==
  /\ authCalls["refreshUserData"].pc = "idle"
  /\ authCalls' =
       IF ~session.isAuthenticated
       THEN [authCalls EXCEPT !["refreshUserData"].pc = "thrown"]
       ELSE [authCalls EXCEPT !["refreshUserData"] =
               [pc |-> "requests", next |-> authState]]
  /\ UNCHANGED <<authState, authStored, session, storedToken, authPc, loadLog>>
  /\ UNCHANGED NotAuthVars

\* refreshUserData after Promise.all: with a profile answer it builds
\* updatedUser from the user it was made with and calls updateUser with it;
\* the same with a wallet answer and updateWallet.
RefreshAnswered(profileOk, walletOk) ==
  LET c == "refreshUserData"
      kept == authCalls[c].next
  IN  /\ authCalls[c].pc = "requests"
      /\ authCalls' = [authCalls EXCEPT ![c] =
           [pc |-> IF profileOk THEN "setUser"
                   ELSE IF walletOk THEN "setWallet" ELSE "done",
            next |-> [user |-> IF profileOk THEN RefreshedUser(kept.user)
                               ELSE kept.user,
                      wallet |-> IF walletOk THEN RefreshedWallet(kept.wallet)
                                 ELSE kept.wallet],
            walletOk |-> walletOk]]
      /\ UNCHANGED <<authState, authStored, session, storedToken, authPc, loadLog>>
      /\ UNCHANGED NotAuthVars

\* refreshUserData: its updateUser(updatedUser) after the setItem.
RefreshUserStored ==
  LET c == "refreshUserData"
  IN  /\ authCalls[c].pc = "setUser"
      /\ authStored' = [authStored EXCEPT !.user = authCalls[c].next.user]
      /\ authState' = [authState EXCEPT !.user = authCalls[c].next.user]
      /\ authCalls' = [authCalls EXCEPT ![c].pc =
           IF authCalls[c].walletOk THEN "setWallet" ELSE "done"]
      /\ UNCHANGED <<session, storedToken, authPc, loadLog>>
      /\ UNCHANGED NotAuthVars

\* refreshUserData: its updateWallet(updatedWallet) after the setItem.
RefreshWalletStored ==
  LET c == "refreshUserData"
  IN  /\ authCalls[c].pc = "setWallet"
      /\ authStored' = [authStored EXCEPT !.wallet = authCalls[c].next.wallet]
      /\ authState' = [authState EXCEPT !.wallet = authCalls[c].next.wallet]
      /\ authCalls' = [authCalls EXCEPT ![c].pc = "done"]
      /\ UNCHANGED <<session, storedToken, authPc, loadLog>>
      /\ UNCHANGED NotAuthVars

NextAuth ==
  \/ \E c \in UserUpdaters : UpdateUser(c)
  \/ \E c \in UserUpdaters : UpdateUserStored(c)
  \/ UpdateWallet
  \/ UpdateWalletStored
  \/ RefreshUserData
  \/ \E profileOk, walletOk \in BOOLEAN : RefreshAnswered(profileOk, walletOk)
  \/ RefreshUserStored
  \/ RefreshWalletStored

\* logout(): isLoggingOut is set and Google is asked to sign out.
Logout ==
  /\ authPc = "idle"
  /\ session' = [session EXCEPT !.isLoggingOut = TRUE]
  /\ authPc' = "googleSignOut"
  /\ UNCHANGED <<authState, authStored, authCalls, storedToken, loadLog>>
  /\ UNCHANGED NotAuthVars

\* logout after the Google sign-out, whose failure is logged and ignored:
\* clearAuthData() asks the storage to remove the session's keys.
LogoutGoogleDone ==
  /\ authPc = "googleSignOut"
  /\ authPc' = "multiRemove"
  /\ UNCHANGED <<authState, authStored, authCalls, session, storedToken, loadLog>>
  /\ UNCHANGED NotAuthVars

\* clearAuthData after multiRemove: the keys are gone, and the API
\* service is asked to drop its token.
LogoutRemoved ==
  /\ authPc = "multiRemove"
  /\ authStored' = [user |-> NoUser, wallet |-> NoWallet]
  /\ storedToken' = "null"
  /\ authPc' = "clearAuthToken"
  /\ UNCHANGED <<authState, authCalls, session, loadLog>>
  /\ UNCHANGED NotAuthVars

\* multiRemove rejects: logout's catch resets isLoggingOut and rethrows.
LogoutRemoveFails ==
  /\ authPc = "multiRemove"
  /\ session' = [session EXCEPT !.isLoggingOut = FALSE]
  /\ authPc' = "logoutFailed"
  /\ UNCHANGED <<authState, authStored, authCalls, storedToken, loadLog>>
  /\ UNCHANGED NotAuthVars

\* clearAuthData after clearAuthToken: setAuthState with user, wallet and
\* token null; logout then replaces the route and returns.
LogoutCleared ==
  /\ authPc = "clearAuthToken"
  /\ authState' = [user |-> NoUser, wallet |-> NoWallet]
  /\ session' = SignedOutSession
  /\ authPc' = "loggedOut"
  /\ UNCHANGED <<authStored, authCalls, storedToken, loadLog>>
  /\ UNCHANGED NotAuthVars

NextSession ==
  \/ NextAuth
  \/ Logout
  \/ LogoutGoogleDone
  \/ LogoutRemoved
  \/ LogoutRemoveFails
  \/ LogoutCleared

\* The effect on mount: loadAuthData() asks the storage for the three keys.
LoadAuthData ==
  /\ authPc = "start"
  /\ authPc' = "multiGet"
  /\ UNCHANGED <<authState, authStored, authCalls, session, storedToken, loadLog>>
  /\ UNCHANGED NotAuthVars

\* loadAuthData after multiGet.  A value that does not parse throws into
\* the outer catch; without all three values nothing is restored; in both
\* cases the call ends by setting isInitialized.  With all three the token
\* is handed to the API service.
LoadGot ==
  /\ authPc = "multiGet"
  /\ IF /\ CorruptData \notin {authStored.user, authStored.wallet}
        /\ AllStored(storedToken, authStored.user, authStored.wallet)
     THEN /\ authPc' = "setAuthToken"
          /\ UNCHANGED session
     ELSE /\ authPc' = "loaded"
          /\ session' = [session EXCEPT !.isInitialized = TRUE]
  /\ UNCHANGED <<authState, authStored, authCalls, storedToken, loadLog>>
  /\ UNCHANGED NotAuthVars

\* loadAuthData after apiService.setAuthToken: verifyToken is awaited.
LoadTokenSet ==
  /\ authPc = "setAuthToken"
  /\ authPc' = "verifyToken"
  /\ UNCHANGED <<authState, authStored, authCalls, session, storedToken, loadLog>>
  /\ UNCHANGED NotAuthVars

\* apiService.setAuthToken throws.  In useAuth the call stands before the
\* inner try, so the outer catch logs the error and the call ends by
\* setting isInitialized; in AuthContext it stands inside the try around
\* the verification, whose catch starts clearStoredAuth().
LoadTokenSetThrows ==
  /\ authPc = "setAuthToken"
  /\ IF loadLog.impl = "useAuth"
     THEN /\ authPc' = "loaded"
          /\ session' = [session EXCEPT !.isInitialized = TRUE]
          /\ UNCHANGED loadLog
     ELSE /\ authPc' = "multiRemoveOnLoad"
          /\ loadLog' = [loadLog EXCEPT !.verify = "throws"]
          /\ UNCHANGED session
  /\ UNCHANGED <<authState, authStored, authCalls, storedToken>>
  /\ UNCHANGED NotAuthVars

\* loadAuthData after verifyToken: on success the stored session becomes
\* the state; on a failure answer and on a throw clearAuthData() starts.
LoadVerified(answer) ==
  /\ authPc = "verifyToken"
  /\ loadLog' = [loadLog EXCEPT !.verify = answer]
  /\ IF answer = "success"
     THEN /\ authState' = [user |-> authStored.user, wallet |-> authStored.wallet]
          /\ session' = [token |-> storedToken, isAuthenticated |-> TRUE,
                         isInitialized |-> TRUE, isLoggingOut |-> FALSE]
          /\ authPc' = "loaded"
     ELSE /\ authPc' = "multiRemoveOnLoad"
          /\ UNCHANGED <<authState, session>>
  /\ UNCHANGED <<authStored, authCalls, storedToken>>
  /\ UNCHANGED NotAuthVars

\* clearAuthData after multiRemove, called by loadAuthData.
LoadRemoved ==
  /\ authPc = "multiRemoveOnLoad"
  /\ authStored' = [user |-> NoUser, wallet |-> NoWallet]
  /\ storedToken' = "null"
  /\ loadLog' = [loadLog EXCEPT !.removed = "ok"]
  /\ authPc' = "clearAuthTokenOnLoad"
  /\ UNCHANGED <<authState, authCalls, session>>
  /\ UNCHANGED NotAuthVars

\* multiRemove rejects: loadAuthData's outer catch logs it, and the call
\* ends by setting isInitialized.
LoadRemoveFails ==
  /\ authPc = "multiRemoveOnLoad"
  /\ loadLog' = [loadLog EXCEPT !.removed = "rejected"]
  /\ session' = [session EXCEPT !.isInitialized = TRUE]
  /\ authPc' = "loaded"
  /\ UNCHANGED <<authState, authStored, authCalls, storedToken>>
  /\ UNCHANGED NotAuthVars

\* clearAuthData after clearAuthToken: setAuthState with the signed-out
\* state; loadAuthData then sets isInitialized once more.
LoadCleared ==
  /\ authPc = "clearAuthTokenOnLoad"
  /\ authState' = [user |-> NoUser, wallet |-> NoWallet]
  /\ session' = SignedOutSession
  /\ authPc' = "loaded"
  /\ UNCHANGED <<authStored, authCalls, storedToken, loadLog>>
  /\ UNCHANGED NotAuthVars

NextStartup ==
  \/ LoadAuthData
  \/ LoadGot
  \/ LoadTokenSet
  \/ LoadTokenSetThrows
  \/ \E answer \in VerifyAnswers : LoadVerified(answer)
  \/ LoadRemoved
  \/ LoadRemoveFails
  \/ LoadCleared

(***************************************************************************)
(*                        NFC read operations                              *)
(* NFCService.readTreasureFromNFC, its callers startNFCSessionWithProgress *)
(* and readNFCTag, and AlternativeNFCService.attemptNFCRead.  Each await   *)
(* is one step, so two reads started from different screens interleave at  *)
(* their awaits.  NfcManager is the one native module of the app: it holds *)
(* at most one technology request, and cancelTechnologyRequest() takes no  *)
(* argument and releases whatever request is held.                         *)
(***************************************************************************)
MaxReads == 2

ReadIds == 1..MaxReads

ReadOps == {"readTreasureFromNFC", "startNFCSessionWithProgress",
            "readNFCTag", "attemptNFCRead"}

NfcServices == {"NFCService", "AlternativeNFCService"}

NotInitialized == [s \in NfcServices |-> FALSE]

\* The class whose static isInitialized the operation reads.
ServiceOf(op) ==
  IF op = "attemptNFCRead" THEN "AlternativeNFCService" ELSE "NFCService"

\* onProgress is passed by the screen to readTreasureFromNFC and to
\* startNFCSessionWithProgress; readNFCTag calls readTreasureFromNFC()
\* without one and attemptNFCRead has no such parameter.
HasCallback(op) == op \in {"readTreasureFromNFC", "startNFCSessionWithProgress"}

NoRead ==
  [op |-> "none", pc |-> "idle", progress |-> <<>>, own |-> "none",
   outcome |-> "none", requested |-> FALSE, cancelCalled |-> FALSE,
   cancelFailed |-> FALSE, lostTo |-> 0]

NoReads == [r \in ReadIds |-> NoRead]

ReadErrors == {"unavailable", "initFailed", "requestRejected", "noTag",
               "getTagThrows", "decodeFailed"}

TagAnswers == {"tag_ok", "tag_bad", "no_tag", "throws"}

\* onProgress?.({status, ...})
Emit(rd, status) ==
  IF HasCallback(rd.op) THEN [rd EXCEPT !.progress = Append(@, status)] ELSE rd

\* What the try / catch / finally hands on: the catch around
\* cancelTechnologyRequest swallows the cancel's error.
AfterFinallyUnguarded(own, cancelOk) == IF cancelOk THEN own ELSE "cancelError"

AfterFinally(own, cancelOk) == own

\* What the caller of readTreasureFromNFC makes of its result: readNFCTag
\* turns every error into null, the others pass it on.
Wrap(op, result) ==
  IF op = "readNFCTag" /\ result \in ReadErrors \cup {"cancelError"}
  THEN "null" ELSE result

NotReadVars == <<hunterVars, decodeVars, navVars, discoverVars, walletVars,
                 faucetVars, treasureVars, authVars>>

\* throw inside the try of readTreasureFromNFC: the catch reports 'error'
\* and rethrows, the finally is still to run.  In attemptNFCRead the checks
\* and initialize() come before the try, so their throw leaves at once.
Fail(r, err, insideTry) ==
  LET rd == reads[r] IN
  reads' = [reads EXCEPT ![r] =
    IF rd.op = "attemptNFCRead" /\ ~insideTry
    THEN [rd EXCEPT !.own = err, !.outcome = err, !.pc = "thrown"]
    ELSE [Emit(rd, "error") EXCEPT !.own = err, !.pc = "cancelling"]]

\* A screen starts a read.
StartRead(r, op) ==
  /\ reads[r].pc = "idle"
  /\ reads' = [reads EXCEPT ![r] =
       IF op = "startNFCSessionWithProgress"
       THEN [@ EXCEPT !.op = op, !.pc = "sessionChecking"]
       ELSE [Emit([@ EXCEPT !.op = op], "initializing") EXCEPT !.pc = "checking"]]
  /\ UNCHANGED <<techOwner, nfcInitialized>>
  /\ UNCHANGED NotReadVars

\* startNFCSessionWithProgress after its own checkNFCAvailability.
SessionChecked(r, available) ==
  /\ reads[r].pc = "sessionChecking"
  /\ reads' = [reads EXCEPT ![r] =
       IF available
       THEN [Emit(@, "initializing") EXCEPT !.pc = "checking"]
       ELSE [Emit(@, "error") EXCEPT !.own = "unavailable",
                                     !.outcome = "unavailable", !.pc = "thrown"]]
  /\ UNCHANGED <<techOwner, nfcInitialized>>
  /\ UNCHANGED NotReadVars

\* After checkNFCAvailability.
Checked(r, available) ==
  /\ reads[r].pc = "checking"
  /\ IF ~available
     THEN Fail(r, "unavailable", FALSE)
     ELSE reads' = [reads EXCEPT ![r] =
            IF nfcInitialized[ServiceOf(@.op)]
            THEN [Emit(Emit(@, "initializing"), "requesting")
                    EXCEPT !.pc = "requesting"]
            ELSE [Emit(@, "initializing") EXCEPT !.pc = "initializing"]]
  /\ UNCHANGED <<techOwner, nfcInitialized>>
  /\ UNCHANGED NotReadVars

\* After initialize().
Initialized(r, ok) ==
  /\ reads[r].pc = "initializing"
  /\ IF ok
     THEN /\ reads' = [reads EXCEPT ![r] =
                [Emit(@, "requesting") EXCEPT !.pc = "requesting"]]
          /\ nfcInitialized' =
                [nfcInitialized EXCEPT ![ServiceOf(reads[r].op)] = TRUE]
     ELSE /\ Fail(r, "initFailed", FALSE)
          /\ UNCHANGED nfcInitialized
  /\ UNCHANGED techOwner
  /\ UNCHANGED NotReadVars

\* After NfcManager.requestTechnology: granted only while no request is held.
Requested(r, granted) ==
  /\ reads[r].pc = "requesting"
  /\ granted => techOwner = 0
  /\ IF granted
     THEN /\ reads' = [reads EXCEPT ![r] =
                [Emit(@, "scanning") EXCEPT !.pc = "scanning", !.requested = TRUE]]
          /\ techOwner' = r
     ELSE /\ Fail(r, "requestRejected", TRUE)
          /\ UNCHANGED techOwner
  /\ UNCHANGED nfcInitialized
  /\ UNCHANGED NotReadVars

\* After NfcManager.getTag, then processNFCTag.  A read whose request has
\* been released gets no tag.
GotTag(r, answer) ==
  /\ reads[r].pc = "scanning"
  /\ techOwner # r => answer \in {"no_tag", "throws"}
  /\ CASE answer = "tag_ok" ->
            reads' = [reads EXCEPT ![r] =
              [Emit(Emit(@, "processing"), "success")
                 EXCEPT !.own = "data", !.pc = "cancelling"]]
       [] answer = "tag_bad" ->
            reads' = [reads EXCEPT ![r] =
              [Emit(Emit(@, "processing"), "error")
                 EXCEPT !.own = "decodeFailed", !.pc = "cancelling"]]
       [] answer = "no_tag" -> Fail(r, "noTag", TRUE)
       [] answer = "throws" -> Fail(r, "getTagThrows", TRUE)
  /\ UNCHANGED <<techOwner, nfcInitialized>>
  /\ UNCHANGED NotReadVars

\* The finally block: cancelTechnologyRequest, then the return or the throw
\* goes on to the caller; startNFCSessionWithProgress' catch reports 'error'
\* and rethrows, readNFCTag's catch returns null.
Cancelled(r, cancelOk) ==
  /\ reads[r].pc = "cancelling"
  /\ LET rd == reads[r]
         result == AfterFinally(rd.own, cancelOk)
         failed == result \in ReadErrors \cup {"cancelError"}
         out == Wrap(rd.op, result)
         done == [rd EXCEPT !.cancelCalled = TRUE,
                            !.cancelFailed = ~cancelOk,
                            !.outcome = out,
                            !.pc = IF out \in ReadErrors \cup {"cancelError"}
                                   THEN "thrown" ELSE "returned"]
         mine == IF failed /\ rd.op = "startNFCSessionWithProgress"
                 THEN Emit(done, "error") ELSE done
     IN reads' = [x \in ReadIds |->
          IF x = r THEN mine
          ELSE IF cancelOk /\ techOwner = x /\ reads[x].pc = "scanning"
               THEN [reads[x] EXCEPT !.lostTo = r]
               ELSE reads[x]]
  /\ techOwner' = IF cancelOk THEN 0 ELSE techOwner
  /\ UNCHANGED nfcInitialized
  /\ UNCHANGED NotReadVars

NextRead ==
  \/ \E r \in ReadIds, op \in ReadOps : StartRead(r, op)
  \/ \E r \in ReadIds, available \in BOOLEAN : SessionChecked(r, available)
  \/ \E r \in ReadIds, available \in BOOLEAN : Checked(r, available)
  \/ \E r \in ReadIds, ok \in BOOLEAN : Initialized(r, ok)
  \/ \E r \in ReadIds, granted \in BOOLEAN : Requested(r, granted)
  \/ \E r \in ReadIds, answer \in TagAnswers : GotTag(r, answer)
  \/ \E r \in ReadIds, cancelOk \in BOOLEAN : Cancelled(r, cancelOk)

(***************************************************************************)
(*                           Specifications                                *)
(***************************************************************************)

\* hunterSlice's initialState; nothing scanned, pressed or submitted.
InitHunter ==
  /\ profile = NoProfile
  /\ hunterOp = "init"
  /\ day = 0
  /\ tag = NoTag
  /\ ndefThrows = FALSE
  /\ clock = 1
  /\ decoded = NotDecoded
  /\ decodeOp = "none"
  /\ hunterRank = 1
  /\ nearby = NothingNearby
  /\ route = "/"
  /\ routeParam = "none"
  /\ alert = "none"
  /\ activeHunt = NoHunt
  /\ currentTreasure = "none"
  /\ navLog = NothingPressed
  /\ registryFound = EmptyRegistry
  /\ minted = NothingMinted
  /\ att = NoAttempts
  /\ foundTreasures = NothingStored
  /\ storedItem = NoItem
  /\ svc = FreshService
  /\ calls = NoCalls
  /\ nextKey = 1
  /\ issued = 0
  /\ walletState = InitialWalletState
  /\ svcNetwork = "testnet"
  /\ walletInfo = "null"
  /\ suiBalance = 0
  /\ faucetCalls = 0
  /\ faucetOp = NoFaucetOp
  /\ treasureState = InitialTreasureState
  /\ authState = SignedIn
  /\ authStored = SignedIn
  /\ authCalls = NoAuthCalls
  /\ session = SignedInSession
  /\ storedToken = "token"
  /\ authPc = "idle"
  /\ loadLog = NoLoad
  /\ reads = NoReads
  /\ techOwner = 0
  /\ nfcInitialized = NotInitialized

\* A tag or QR string has been scanned and waits for its decoder.
InitDecode ==
  /\ profile = NoProfile
  /\ hunterOp = "init"
  /\ day = 0
  /\ tag \in Tags
  /\ ndefThrows \in BOOLEAN
  /\ clock \in 1..MaxClock
  /\ decoded = NotDecoded
  /\ decodeOp = "none"
  /\ hunterRank = 1
  /\ nearby = NothingNearby
  /\ route = "/"
  /\ routeParam = "none"
  /\ alert = "none"
  /\ activeHunt = NoHunt
  /\ currentTreasure = "none"
  /\ navLog = NothingPressed
  /\ registryFound = EmptyRegistry
  /\ minted = NothingMinted
  /\ att = NoAttempts
  /\ foundTreasures = NothingStored
  /\ storedItem = NoItem
  /\ svc = FreshService
  /\ calls = NoCalls
  /\ nextKey = 1
  /\ issued = 0
  /\ walletState = InitialWalletState
  /\ svcNetwork = "testnet"
  /\ walletInfo = "null"
  /\ suiBalance = 0
  /\ faucetCalls = 0
  /\ faucetOp = NoFaucetOp
  /\ treasureState = InitialTreasureState
  /\ authState = SignedIn
  /\ authStored = SignedIn
  /\ authCalls = NoAuthCalls
  /\ session = SignedInSession
  /\ storedToken = "token"
  /\ authPc = "idle"
  /\ loadLog = NoLoad
  /\ reads = NoReads
  /\ techOwner = 0
  /\ nfcInitialized = NotInitialized

\* The home screen with the nearby treasures loaded, no hunt active.
InitNav ==
  /\ profile = NoProfile
  /\ hunterOp = "init"
  /\ day = 0
  /\ tag = NoTag
  /\ ndefThrows = FALSE
  /\ clock = 1
  /\ decoded = NotDecoded
  /\ decodeOp = "none"
  /\ hunterRank \in SignedInRanks
  /\ nearby \in [TreasureIds -> [distance : Distances, requiredRank : RequiredRanks]]
  /\ route = "/"
  /\ routeParam = "none"
  /\ alert = "none"
  /\ activeHunt = NoHunt
  /\ currentTreasure = "none"
  /\ navLog = NothingPressed
  /\ registryFound = EmptyRegistry
  /\ minted = NothingMinted
  /\ att = NoAttempts
  /\ foundTreasures = NothingStored
  /\ storedItem = NoItem
  /\ svc = FreshService
  /\ calls = NoCalls
  /\ nextKey = 1
  /\ issued = 0
  /\ walletState = InitialWalletState
  /\ svcNetwork = "testnet"
  /\ walletInfo = "null"
  /\ suiBalance = 0
  /\ faucetCalls = 0
  /\ faucetOp = NoFaucetOp
  /\ treasureState = InitialTreasureState
  /\ authState = SignedIn
  /\ authStored = SignedIn
  /\ authCalls = NoAuthCalls
  /\ session = SignedInSession
  /\ storedToken = "token"
  /\ authPc = "idle"
  /\ loadLog = NoLoad
  /\ reads = NoReads
  /\ techOwner = 0
  /\ nfcInitialized = NotInitialized

\* An empty registry, and no findTreasure call yet.
InitDiscover ==
  /\ profile = NoProfile
  /\ hunterOp = "init"
  /\ day = 0
  /\ tag = NoTag
  /\ ndefThrows = FALSE
  /\ clock = 1
  /\ decoded = NotDecoded
  /\ decodeOp = "none"
  /\ hunterRank = 1
  /\ nearby = NothingNearby
  /\ route = "/"
  /\ routeParam = "none"
  /\ alert = "none"
  /\ activeHunt = NoHunt
  /\ currentTreasure = "none"
  /\ navLog = NothingPressed
  /\ registryFound = EmptyRegistry
  /\ minted = NothingMinted
  /\ att = NoAttempts
  /\ foundTreasures = NothingStored
  /\ storedItem = NoItem
  /\ svc = FreshService
  /\ calls = NoCalls
  /\ nextKey = 1
  /\ issued = 0
  /\ walletState = InitialWalletState
  /\ svcNetwork = "testnet"
  /\ walletInfo = "null"
  /\ suiBalance = 0
  /\ faucetCalls = 0
  /\ faucetOp = NoFaucetOp
  /\ treasureState = InitialTreasureState
  /\ authState = SignedIn
  /\ authStored = SignedIn
  /\ authCalls = NoAuthCalls
  /\ session = SignedInSession
  /\ storedToken = "token"
  /\ authPc = "idle"
  /\ loadLog = NoLoad
  /\ reads = NoReads
  /\ techOwner = 0
  /\ nfcInitialized = NotInitialized

\* A device on first use, or one whose stored value is unreadable.
InitWallet ==
  /\ profile = NoProfile
  /\ hunterOp = "init"
  /\ day = 0
  /\ tag = NoTag
  /\ ndefThrows = FALSE
  /\ clock = 1
  /\ decoded = NotDecoded
  /\ decodeOp = "none"
  /\ hunterRank = 1
  /\ nearby = NothingNearby
  /\ route = "/"
  /\ routeParam = "none"
  /\ alert = "none"
  /\ activeHunt = NoHunt
  /\ currentTreasure = "none"
  /\ navLog = NothingPressed
  /\ registryFound = EmptyRegistry
  /\ minted = NothingMinted
  /\ att = NoAttempts
  /\ foundTreasures = NothingStored
  /\ storedItem \in {NoItem, CorruptItem}
  /\ svc = FreshService
  /\ calls = NoCalls
  /\ nextKey = 1
  /\ issued = 0
  /\ walletState = InitialWalletState
  /\ svcNetwork = "testnet"
  /\ walletInfo = "null"
  /\ suiBalance = 0
  /\ faucetCalls = 0
  /\ faucetOp = NoFaucetOp
  /\ treasureState = InitialTreasureState
  /\ authState = SignedIn
  /\ authStored = SignedIn
  /\ authCalls = NoAuthCalls
  /\ session = SignedInSession
  /\ storedToken = "token"
  /\ authPc = "idle"
  /\ loadLog = NoLoad
  /\ reads = NoReads
  /\ techOwner = 0
  /\ nfcInitialized = NotInitialized

\* The slice starts from initialState; the service is constructed for a
\* network; the screen has loaded the wallet's network or has not.
InitFaucet ==
  /\ profile = NoProfile
  /\ hunterOp = "init"
  /\ day = 0
  /\ tag = NoTag
  /\ ndefThrows = FALSE
  /\ clock = 1
  /\ decoded = NotDecoded
  /\ decodeOp = "none"
  /\ hunterRank = 1
  /\ nearby = NothingNearby
  /\ route = "/"
  /\ routeParam = "none"
  /\ alert = "none"
  /\ activeHunt = NoHunt
  /\ currentTreasure = "none"
  /\ navLog = NothingPressed
  /\ registryFound = EmptyRegistry
  /\ minted = NothingMinted
  /\ att = NoAttempts
  /\ foundTreasures = NothingStored
  /\ storedItem = NoItem
  /\ svc = FreshService
  /\ calls = NoCalls
  /\ nextKey = 1
  /\ issued = 0
  /\ walletState = InitialWalletState
  /\ svcNetwork \in Networks
  /\ walletInfo \in Networks \cup {"null"}
  /\ suiBalance = 0
  /\ faucetCalls = 0
  /\ faucetOp = NoFaucetOp
  /\ treasureState = InitialTreasureState
  /\ authState = SignedIn
  /\ authStored = SignedIn
  /\ authCalls = NoAuthCalls
  /\ session = SignedInSession
  /\ storedToken = "token"
  /\ authPc = "idle"
  /\ loadLog = NoLoad
  /\ reads = NoReads
  /\ techOwner = 0
  /\ nfcInitialized = NotInitialized

\* The store after configureStore: every slice at its initialState.
InitTreasure ==
  /\ profile = NoProfile
  /\ hunterOp = "init"
  /\ day = 0
  /\ tag = NoTag
  /\ ndefThrows = FALSE
  /\ clock = 1
  /\ decoded = NotDecoded
  /\ decodeOp = "none"
  /\ hunterRank = 1
  /\ nearby = NothingNearby
  /\ route = "/"
  /\ routeParam = "none"
  /\ alert = "none"
  /\ activeHunt = NoHunt
  /\ currentTreasure = "none"
  /\ navLog = NothingPressed
  /\ registryFound = EmptyRegistry
  /\ minted = NothingMinted
  /\ att = NoAttempts
  /\ foundTreasures = NothingStored
  /\ storedItem = NoItem
  /\ svc = FreshService
  /\ calls = NoCalls
  /\ nextKey = 1
  /\ issued = 0
  /\ walletState = InitialWalletState
  /\ svcNetwork = "testnet"
  /\ walletInfo = "null"
  /\ suiBalance = 0
  /\ faucetCalls = 0
  /\ faucetOp = NoFaucetOp
  /\ treasureState = InitialTreasureState
  /\ authState = SignedIn
  /\ authStored = SignedIn
  /\ authCalls = NoAuthCalls
  /\ session = SignedInSession
  /\ storedToken = "token"
  /\ authPc = "idle"
  /\ loadLog = NoLoad
  /\ reads = NoReads
  /\ techOwner = 0
  /\ nfcInitialized = NotInitialized

\* A signed-in user: memory and storage hold what the login stored.
InitAuth ==
  /\ profile = NoProfile
  /\ hunterOp = "init"
  /\ day = 0
  /\ tag = NoTag
  /\ ndefThrows = FALSE
  /\ clock = 1
  /\ decoded = NotDecoded
  /\ decodeOp = "none"
  /\ hunterRank = 1
  /\ nearby = NothingNearby
  /\ route = "/"
  /\ routeParam = "none"
  /\ alert = "none"
  /\ activeHunt = NoHunt
  /\ currentTreasure = "none"
  /\ navLog = NothingPressed
  /\ registryFound = EmptyRegistry
  /\ minted = NothingMinted
  /\ att = NoAttempts
  /\ foundTreasures = NothingStored
  /\ storedItem = NoItem
  /\ svc = FreshService
  /\ calls = NoCalls
  /\ nextKey = 1
  /\ issued = 0
  /\ walletState = InitialWalletState
  /\ svcNetwork = "testnet"
  /\ walletInfo = "null"
  /\ suiBalance = 0
  /\ faucetCalls = 0
  /\ faucetOp = NoFaucetOp
  /\ treasureState = InitialTreasureState
  /\ authState = SignedIn
  /\ authStored = SignedIn
  /\ authCalls = NoAuthCalls
  /\ session = SignedInSession
  /\ storedToken = "token"
  /\ authPc = "idle"
  /\ loadLog = NoLoad
  /\ reads = NoReads
  /\ techOwner = 0
  /\ nfcInitialized = NotInitialized

\* The app starts: nothing in memory, and in storage whatever an earlier run
\* left.
InitStartup ==
  /\ profile = NoProfile
  /\ hunterOp = "init"
  /\ day = 0
  /\ tag = NoTag
  /\ ndefThrows = FALSE
  /\ clock = 1
  /\ decoded = NotDecoded
  /\ decodeOp = "none"
  /\ hunterRank = 1
  /\ nearby = NothingNearby
  /\ route = "/"
  /\ routeParam = "none"
  /\ alert = "none"
  /\ activeHunt = NoHunt
  /\ currentTreasure = "none"
  /\ navLog = NothingPressed
  /\ registryFound = EmptyRegistry
  /\ minted = NothingMinted
  /\ att = NoAttempts
  /\ foundTreasures = NothingStored
  /\ storedItem = NoItem
  /\ svc = FreshService
  /\ calls = NoCalls
  /\ nextKey = 1
  /\ issued = 0
  /\ walletState = InitialWalletState
  /\ svcNetwork = "testnet"
  /\ walletInfo = "null"
  /\ suiBalance = 0
  /\ faucetCalls = 0
  /\ faucetOp = NoFaucetOp
  /\ treasureState = InitialTreasureState
  /\ authState = [user |-> NoUser, wallet |-> NoWallet]
  /\ authStored \in [user : {NoUser, SignedIn.user, CorruptData},
                    wallet : {NoWallet, SignedIn.wallet, CorruptData}]
  /\ authCalls = NoAuthCalls
  /\ session = InitialSession
  /\ storedToken \in {"null", "token"}
  /\ authPc = "start"
  /\ loadLog \in [impl : AuthImpls, verify : {"none"}, removed : {"none"}]
  /\ reads = NoReads
  /\ techOwner = 0
  /\ nfcInitialized = NotInitialized

\* No read has been started; NfcManager.start() has not run.
InitRead ==
  /\ profile = NoProfile
  /\ hunterOp = "init"
  /\ day = 0
  /\ tag = NoTag
  /\ ndefThrows = FALSE
  /\ clock = 1
  /\ decoded = NotDecoded
  /\ decodeOp = "none"
  /\ hunterRank = 1
  /\ nearby = NothingNearby
  /\ route = "/"
  /\ routeParam = "none"
  /\ alert = "none"
  /\ activeHunt = NoHunt
  /\ currentTreasure = "none"
  /\ navLog = NothingPressed
  /\ registryFound = EmptyRegistry
  /\ minted = NothingMinted
  /\ att = NoAttempts
  /\ foundTreasures = NothingStored
  /\ storedItem = NoItem
  /\ svc = FreshService
  /\ calls = NoCalls
  /\ nextKey = 1
  /\ issued = 0
  /\ walletState = InitialWalletState
  /\ svcNetwork = "testnet"
  /\ walletInfo = "null"
  /\ suiBalance = 0
  /\ faucetCalls = 0
  /\ faucetOp = NoFaucetOp
  /\ treasureState = InitialTreasureState
  /\ authState = SignedIn
  /\ authStored = SignedIn
  /\ authCalls = NoAuthCalls
  /\ session = SignedInSession
  /\ storedToken = "token"
  /\ authPc = "idle"
  /\ loadLog = NoLoad
  /\ reads = NoReads
  /\ techOwner = 0
  /\ nfcInitialized = NotInitialized

SpecHunter == InitHunter /\ [][NextHunter]_vars

SpecDecode == InitDecode /\ [][NextDecode]_vars

SpecNav == InitNav /\ [][NextNav]_vars

SpecDiscover == InitDiscover /\ [][NextDiscover]_vars

SpecWallet == InitWallet /\ [][NextWallet]_vars

SpecFaucet == InitFaucet /\ [][NextFaucet]_vars

SpecTreasure == InitTreasure /\ [][NextTreasure]_vars

SpecAuth == InitAuth /\ [][NextAuth]_vars

SpecSession == InitAuth /\ [][NextSession]_vars

\* Every pending storage or backend request of loadAuthData settles.
SpecStartup == InitStartup /\ [][NextStartup]_vars /\ WF_vars(NextStartup)

SpecRead == InitRead /\ [][NextRead]_vars

(***************************************************************************)
(*                              Properties                                 *)
(***************************************************************************)

\* The attempts for treasure t with nothing for the contract to reject, whose
\* transaction the ledger has executed.
Executed(t) ==
  {a \in Attempts : att[a].treasure = t /\ att[a].elig = "ok" /\ att[a].tx.status # "none"}

RetryReturnsTheSameResult ==
  \A b \in Attempts :
    (/\ att[b].pc = "done"
     /\ att[b].retryOf # 0
     /\ att[att[b].retryOf].tx.status = "success"
     /\ att[b].outcome # NetworkErrorMessage) => att[b].outcome = "Settled"

\* C3: the rank of a profile is the function of totalTreasuresFound with
\* thresholds 5, 20 and 50, after every operation.
RankIsFunctionOfTreasuresFound ==
  profile # NoProfile => profile.rank = RankForTreasures(profile.totalTreasuresFound)

StreakFollowsWindow ==
  [][(profile # NoProfile /\ hunterOp' = "incrementTreasuresFound" /\ profile' # profile)
       => profile'.currentStreak =
            IF day - profile.lastActiveAt <= StreakWindowDays
            THEN profile.currentStreak + 1 ELSE 1]_vars

\* C12: two attempts that failed for different causes were given different
\* errors.
DistinctCausesDistinctErrors ==
  \A a, b \in Attempts :
    (/\ att[a].pc = "done" /\ att[a].outcome # "Settled"
     /\ att[b].pc = "done" /\ att[b].outcome # "Settled"
     /\ att[a].cause # att[b].cause) => att[a].outcome # att[b].outcome

\* C13: between two resets every initializeWallet returns the address the
\* first one returned, and the key of an initialized service is the key in
\* storage.
WalletStaysTheSame ==
  /\ \A c \in Calls : calls[c].result > 0 => calls[c].result = issued
  /\ (svc.isInitialized /\ svc.keypair # 0) => storedItem = ToB64(svc.keypair)

\* C15: a private key in device storage is in encrypted form.
StoredKeyEncrypted ==
  storedItem.key # 0 => storedItem.form = "encrypted"

\* C16: a treasure is recorded as found at most once on the client: no id
\* is twice in foundTreasures, no id is in both nearbyTreasures and
\* foundTreasures, and stats.totalFound is the number of distinct treasures
\* found.
FoundAtMostOnce ==
  /\ \A t \in TreasureIds :
       /\ Count(treasureState.foundTreasures, t) <= 1
       /\ ~(Has(treasureState.nearbyTreasures, t)
            /\ Has(treasureState.foundTreasures, t))
  /\ treasureState.totalFound
       = Cardinality({t \in TreasureIds : Has(treasureState.foundTreasures, t)})

\* C17: writes to one profile are serialized: every update that has
\* finished, whatever it overlapped with, has its change in the profile in
\* memory and in the stored one.
NoUpdateLost ==
  \A held \in {authState, authStored} :
    /\ authCalls["updateUser(username)"].pc = "done" => held.user.username = 1
    /\ authCalls["updateUser(avatarUrl)"].pc = "done"
         => held.user.avatarUrl = 1
    /\ authCalls["updateWallet(verified)"].pc = "done"
         => held.wallet.verified = 1

\* C18: once the ledger has accepted the mint of an attempt and its result
\* has come back, nothing in the processing that follows makes the attempt
\* end as a failure: it is reported as settled.
AcceptedMintIsReportedSettled ==
  \A a \in Attempts :
    (/\ att[a].pc = "done"
     /\ att[a].tx.status = "success"
     /\ att[a].cause # "Timeout") => att[a].outcome = "Settled"

\* C22: after a logout that completed, user, wallet and token are null,
\* isAuthenticated is false and the storage holds no auth_token, user_data
\* or wallet_data, whatever update was in flight meanwhile.
NothingLeftAfterLogout ==
  authPc = "loggedOut"
    => /\ authState.user = NoUser
       /\ authState.wallet = NoWallet
       /\ session.token = "null"
       /\ ~session.isAuthenticated
       /\ authStored.user = NoUser
       /\ authStored.wallet = NoWallet
       /\ storedToken = "null"

\* The stored session is gone.
NothingStoredOfSession ==
  /\ storedToken = "null"
  /\ authStored.user = NoUser
  /\ authStored.wallet = NoWallet

FoundAndCountedTogether ==
  [][(profile # NoProfile /\ profile' # NoProfile)
       => ((Len(treasureState'.foundTreasures)
              = Len(treasureState.foundTreasures) + 1)
           <=> (profile'.totalTreasuresFound
                  = profile.totalTreasuresFound + 1))]_vars

\* C14: the faucet is for testnet and devnet only: a faucet request made by
\* a part of the client whose network is mainnet ends as a failure, sends no
\* faucet call, and leaves the balance and the transaction list as they
\* were.
FaucetRefusedOnMainnet ==
  [][(/\ faucetOp'.n # faucetOp.n
      /\ \/ faucetOp'.by = "walletSlice" /\ walletState.network = "mainnet"
         \/ faucetOp'.by = "SuiService" /\ svcNetwork = "mainnet"
         \/ faucetOp'.by = "WalletScreen" /\ walletInfo = "mainnet")
       => /\ faucetOp'.end \in {"thrown", "unavailable", "rejected"}
          /\ faucetCalls' = faucetCalls
          /\ suiBalance' = suiBalance
          /\ walletState'.transactions = walletState.transactions
          /\ walletState'.pendingTransactions
               = walletState.pendingTransactions]_vars

\* The text a 3-byte header is in front of.
AfterHeader(bytes) == Utf8Decode(Slice(bytes, 3))

\* A complete document of the "treasure_name"/"nfc_data" format.
WellFormedNfcText(s) ==
  /\ JsonParses(s)
  /\ IncludesTreasureName(s)
  /\ Member(s, NfcMembers) = "nfc_ok"

\* C5: for a payload with a 3-byte header in front of a well-formed document,
\* whose standard decoding gives text that is no JSON, processNFCTag returns
\* the claim of the text after the header.
FallsThroughToSkipThree ==
  (/\ decodeOp \in {"NFCService.processNFCTag", "AlternativeNFCService.processNFCTag"}
   /\ tag.kind = "ndef"
   /\ ~ndefThrows
   /\ ~JsonParses(NdefTextDecode(tag.payload))
   /\ WellFormedNfcText(AfterHeader(tag.payload)))
    => decoded = ParseNfcFormat(AfterHeader(tag.payload), clock)

\* The strategy the fixed order (standard, skip 3, no skip) selects: the
\* first whose text is a complete document with the expected fields.
FirstInFixedOrder(bytes, throws) ==
  IF ~throws /\ WellFormedNfcText(NdefTextDecode(bytes))
  THEN [found |-> TRUE, strategy |-> "standard", skip |-> 0,
        text |-> NdefTextDecode(bytes)]
  ELSE IF WellFormedNfcText(Utf8Decode(Slice(bytes, 3)))
  THEN [found |-> TRUE, strategy |-> "skip", skip |-> 3,
        text |-> Utf8Decode(Slice(bytes, 3))]
  ELSE IF WellFormedNfcText(Utf8Decode(bytes))
  THEN [found |-> TRUE, strategy |-> "skip", skip |-> 0,
        text |-> Utf8Decode(bytes)]
  ELSE [found |-> FALSE, strategy |-> "none", skip |-> 0, text |-> << >>]

\* C20: the decoding strategies are tried in the fixed order standard, raw
\* UTF-8 after a 3-byte header, raw UTF-8 without skip, and the one used is
\* the first whose text parses as JSON with the expected fields: when the
\* standard decoding throws and one of the raw decodings gives such a text,
\* processNFCTag uses that decoding and returns its claim.
StrategiesInFixedOrder ==
  (/\ decodeOp \in {"NFCService.processNFCTag", "AlternativeNFCService.processNFCTag"}
   /\ tag.kind = "ndef"
   /\ ndefThrows
   /\ FirstInFixedOrder(tag.payload, ndefThrows).found)
    => /\ PayloadString(tag.payload, ndefThrows)
            = FirstInFixedOrder(tag.payload, ndefThrows)
       /\ decoded = ParseNfcFormat(FirstInFixedOrder(tag.payload, ndefThrows).text,
                                   clock)

\* C21: decoding is a function of the payload alone: the claim (or error)
\* processNFCTag gave is the one it gives for the same tag at every other
\* time.
DecodingIgnoresTheClock ==
  \A now \in 1..MaxClock :
    /\ decodeOp = "NFCService.processNFCTag"
         => decoded = ProcessNFCTag(tag, ndefThrows, now, FALSE)
    /\ decodeOp = "AlternativeNFCService.processNFCTag"
         => decoded = ProcessNFCTag(tag, ndefThrows, now, TRUE)

\* C6: parseQRData throws for a document of an unknown type and for one of
\* an unsupported version.
QrTypeAndVersionChecked ==
  (/\ decodeOp = "NFCService.parseQRData"
   /\ JsonParses(tag.payload)
   /\ \/ Member(tag.payload, TypeMembers) = "type_other"
      \/ Member(tag.payload, VersionMembers) = "ver_9_9") => ~decoded.ok

\* C7: every claim a decoder returns carries the treasure id of its payload.
ClaimCarriesPayloadTreasureId ==
  (decodeOp # "none" /\ decoded.ok) => decoded.claim.treasureId = PayloadTreasureId

FiveKilometresIsTooFar ==
  \A t \in TreasureIds :
    (/\ navLog[t] # "none"
     /\ nearby[t].distance > Dm(ReadmeDistanceMeters)
     /\ nearby[t].distance >= Dm(MaxDistanceMeters)) => navLog[t] = "TooFar"

\* C10: no hunt is active for a treasure whose required rank is above the
\* hunter's.
NoHuntBelowRequiredRank ==
  activeHunt.status = "active" => hunterRank >= nearby[activeHunt.treasureId].requiredRank

ReadFinished(rd) == rd.pc \in {"returned", "thrown"}

\* C24: every technology request a read operation was granted is released:
\* cancelTechnologyRequest is called once the read is through with the tag
\* and before it returns or throws (success, no tag, decode failure, thrown
\* error), the request is held on afterwards only if that cancel itself
\* failed, and a failed cancel leaves the operation's own result or error
\* as it was.
ReadsReleaseTheirRequest ==
  \A r \in ReadIds :
    LET rd == reads[r] IN
    /\ rd.cancelCalled => ReadFinished(rd)
    /\ (ReadFinished(rd) /\ rd.requested)
         => /\ rd.cancelCalled
            /\ rd.outcome = Wrap(rd.op, rd.own)
    /\ (ReadFinished(rd) /\ techOwner = r) => rd.cancelFailed

\* A read that found no tag threw its own error although its cancel failed.
NoTagErrorSurvivesFailedCancel ==
  \E r \in ReadIds :
    /\ reads[r].op \in {"readTreasureFromNFC", "attemptNFCRead"}
    /\ reads[r].requested /\ reads[r].cancelCalled /\ reads[r].cancelFailed
    /\ reads[r].pc = "thrown" /\ reads[r].outcome = "noTag"

\* C25: when two reads overlap, the cleanup of one never releases the
\* technology request the other is still using.
NoReadLosesItsRequest ==
  \A r \in ReadIds : reads[r].lostTo = 0

ProgressOrder == <<"initializing", "requesting", "scanning", "processing">>

ProgressRank(status) ==
  CHOOSE i \in 1..Len(ProgressOrder) : ProgressOrder[i] = status

TerminalStatuses == {"success", "error"}

\* C26: the statuses a finished session gave to its progress callback are
\* initializing, requesting, scanning, processing in that order, followed
\* by exactly one terminal status (success or error), which is the last
\* event; error is reported once.
ProgressEndsOnce ==
  \A r \in ReadIds :
    LET p == reads[r].progress IN
    (HasCallback(reads[r].op) /\ ReadFinished(reads[r]))
      => /\ Len(p) > 0
         /\ p[Len(p)] \in TerminalStatuses
         /\ \A i \in 1..(Len(p) - 1) : p[i] \notin TerminalStatuses
         /\ \A i, j \in 1..(Len(p) - 1) :
              i < j => ProgressRank(p[i]) <= ProgressRank(p[j])

TerminalHuntStatuses == {"completed", "failed", "abandoned"}

\* C27: a hunt that has become the active hunt leaves that role only by
\* being appended to huntHistory with a terminal status (completed, failed
\* or abandoned), and huntHistory never holds a hunt whose status is active.
ActiveHuntLeavesByArchive ==
  /\ [](\A i \in 1..Len(treasureState.huntHistory) :
          treasureState.huntHistory[i].status \in TerminalHuntStatuses)
  /\ [][(/\ treasureState.activeHunt # NullHunt
         /\ treasureState'.activeHunt # treasureState.activeHunt)
          => \E status \in TerminalHuntStatuses :
               treasureState'.huntHistory =
                 Append(treasureState.huntHistory,
                        [treasureState.activeHunt EXCEPT !.status = status])]_vars

=============================================================================
